---------------------------- MODULE Spec2Model ----------------------------
(***************************************************************************)
(* Model of src/app.py: a record store kept in one CSV file (create, read, *)
(* update, delete by Rollno) and the /average request, which partitions    *)
(* the records into chunks, puts them on a queue and lets a pool of worker *)
(* threads compute the per-student averages into a shared list.            *)
(*                                                                         *)
(* A csv row is a record [Rollno, name, english, maths, science] of        *)
(* strings.  A Python str that the code iterates over is a sequence of     *)
(* one-character strings.  An average is kept in hundredths (8000 is       *)
(* 80.00).                                                                 *)
(***************************************************************************)
EXTENDS Integers, Sequences, FiniteSets, TLC

\* ---------------------------------------------------------------- bounds
\* Longest record list the aggregation is run on.
MaxRecords == 3
\* Largest worker-pool size explored.  average_scores sets num_threads = 10;
\* the run is explored for every pool size from 1 to MaxThreads, and the
\* chunk size follows the pool size as in the source.
MaxThreads == 2

VARIABLES
    store,          \* the rows of the csv file, in file order
    mpc,            \* average_scores: position of the request thread
    records,        \* average_scores: records
    num_threads,    \* average_scores: num_threads
    chunk_size,     \* average_scores: chunk_size
    i,              \* average_scores: loop variable of the enqueue loop
    q,              \* queue.Queue: the chunks waiting
    unfinished,     \* queue.Queue: unfinished_tasks
    results,        \* average_scores: results, shared with the workers
    lock,           \* threading.Lock: 0 when free, else the holder
    threads,        \* average_scores: number of threads started
    joined,         \* average_scores: number of threads joined
    response,       \* what average_scores returned
    wpc,            \* worker: position of each worker thread
    chunk,          \* worker: chunk
    chunk_results,  \* worker: chunk_results
    last,           \* the store request handled last, with its answer
    rpc,            \* create_record: position of each concurrent request
    rdata,          \* create_record: data of each concurrent request
    rrecords,       \* create_record: records of each concurrent request
    rresp           \* create_record: status each concurrent request returned

vars == << store, mpc, records, num_threads, chunk_size, i, q, unfinished,
           results, lock, threads, joined, response, wpc, chunk,
           chunk_results, last, rpc, rdata, rrecords, rresp >>

\* The variables of the /average request, and those of the store requests.
aggVars == << mpc, records, num_threads, chunk_size, i, q, unfinished,
              results, lock, threads, joined, response, wpc, chunk,
              chunk_results >>

reqVars == << last, rpc, rdata, rrecords, rresp >>

\* ------------------------------------------------------------ data
Fields == {"Rollno", "name", "english", "maths", "science"}

Row(r, n, e, m, s) ==
    [Rollno |-> r, name |-> n, english |-> e, maths |-> m, science |-> s]

\* The rows the aggregation input holds at position k (from 1): a row with
\* Rollno k and numeric scores, a row with Rollno k and a score float()
\* rejects ("abc", or "" as write_csv stores a missing field), and a row with
\* numeric scores under Rollno "1", a duplicate when another row has it.
IdOf(k) == << "1", "2", "3", "4", "5", "6", "7", "8", "9" >>[k]

GoodRow(k) ==
    CASE k % 3 = 1 -> Row(IdOf(k), "a", "90", "80", "70")
      [] k % 3 = 2 -> Row(IdOf(k), "b", "100", "100", "99")
      [] OTHER -> Row(IdOf(k), "c", "60", "75", "99")

BadRow(k) ==
    IF k % 2 = 1 THEN Row(IdOf(k), "e", "abc", "80", "70")
    ELSE Row(IdOf(k), "f", "75", "", "70")

RowsAt(k) == { GoodRow(k), BadRow(k), Row("1", "d", "75", "80", "99") }

\* float(s) succeeds exactly on these score strings of the model.
NumericStrings == {"60", "70", "75", "80", "90", "99", "100"}

float(s) ==
    CASE s = "60" -> 60
      [] s = "70" -> 70
      [] s = "75" -> 75
      [] s = "80" -> 80
      [] s = "90" -> 90
      [] s = "99" -> 99
      [] s = "100" -> 100

\* The characters of a string: the identifiers of the model are one character
\* long, "abc" and "" are the non-numeric scores.
CharsOf(s) ==
    CASE s = "" -> << >>
      [] s = "abc" -> << "a", "b", "c" >>
      [] OTHER -> << s >>

\* A slip that cuts the average off after the second decimal.
RoundedThird_floor(x) == (100 * x) \div 3


\* round(x / 3, 2) for an integer sum x, in hundredths.  100 * x / 3 is
\* never half way between two integers, so no tie rule applies.
RoundedThird(x) == (200 * x + 3) \div 6


\* The first of the three scores of a row that float() rejects with a
\* ValueError, in the order the code parses them; "none" when all parse.
BadField(record) ==
    IF record.english \notin NumericStrings THEN "english"
    ELSE IF record.maths \notin NumericStrings THEN "maths"
    ELSE IF record.science \notin NumericStrings THEN "science"
    ELSE "none"

\* The dict student_average appends for a row whose scores parse.
DerivedRecord(record) ==
    [Rollno |-> record.Rollno,
     name |-> record.name,
     average |-> RoundedThird(float(record.english) + float(record.maths)
                              + float(record.science))]

\* A Python str is the sequence of its characters, each character c kept as
\* [char |-> c], so that a list may hold characters beside derived records.
Str(chars) == [k \in 1..Len(chars) |-> [char |-> chars[k]]]

\* f"Error processing record {record}: {e}".  The text of {record} is
\* shortened to the row's Rollno and the text of {e} to the rejected value;
\* the literal part is kept.
ErrorMessage(record) ==
    Str(<< "E", "r", "r", "o", "r", " ", "p", "r", "o", "c", "e", "s", "s",
           "i", "n", "g", " ", "r", "e", "c", "o", "r", "d", " " >>
        \o CharsOf(record.Rollno) \o << ":", " " >>
        \o CharsOf(record[BadField(record)]))

RECURSIVE student_average_loop(_, _, _)

\* A slip that puts each derived record in front of the list built so far.
student_average_loop_rev(recs, k, averages) ==
    IF k > Len(recs) THEN averages
    ELSE IF BadField(recs[k]) # "none" THEN ErrorMessage(recs[k])
    ELSE student_average_loop(recs, k + 1,
                              << DerivedRecord(recs[k]) >> \o averages)

\* The loop of student_average from row k on, with the list built so far:
\* a row that fails to parse ends the call with the error message, a str.
student_average_loop(recs, k, averages) ==
    IF k > Len(recs) THEN averages
    ELSE IF BadField(recs[k]) # "none" THEN ErrorMessage(recs[k])
    ELSE student_average_loop(recs, k + 1,
                              Append(averages, DerivedRecord(recs[k])))

student_average(recs) == student_average_loop(recs, 1, << >>)

\* A slip that rebinds the list to the chunk's items instead of extending it.
extend_rebind(list, x) == x

\* list.extend(x) appends what iterating x yields: the elements of a list,
\* the characters of a str.
extend(list, x) == list \o x

\* records[a : a + n] of Python, for a 0-based start a.
Slice(recs, a, n) ==
    [k \in 1..(IF a + n > Len(recs) THEN Len(recs) - a ELSE n) |-> recs[a + k]]

Max(a, b) == IF a >= b THEN a ELSE b


\* ------------------------------------------------- the /average request
Workers == 1..MaxThreads

NoResponse == [status |-> 0]

\* The record lists of at most n rows, row k drawn from RowsAt(k).
Inputs(n) ==
    UNION { { s \in [1..k -> UNION { RowsAt(j) : j \in 1..k }] :
                \A j \in 1..k : s[j] \in RowsAt(j) } : k \in 0..n }

Requests == {1, 2}

NoRequest == [op |-> "none"]

\* No /average request has begun.
AggIdle ==
    /\ mpc = "idle"
    /\ records = << >>
    /\ chunk_size = 0
    /\ i = 0
    /\ q = << >>
    /\ unfinished = 0
    /\ results = << >>
    /\ lock = 0
    /\ threads = 0
    /\ joined = 0
    /\ response = NoResponse
    /\ wpc = [w \in Workers |-> "unborn"]
    /\ chunk = [w \in Workers |-> << >>]
    /\ chunk_results = [w \in Workers |-> << >>]

\* No store request has been handled and none is under way.
ReqIdle ==
    /\ last = NoRequest
    /\ rpc = [p \in Requests |-> "idle"]
    /\ rdata = [p \in Requests |-> << >>]
    /\ rrecords = [p \in Requests |-> << >>]
    /\ rresp = [p \in Requests |-> 0]

\* One /average request on a file of at most MaxRecords rows.
Init ==
    /\ store \in Inputs(MaxRecords)
    /\ num_threads \in 1..MaxThreads
    /\ AggIdle
    /\ ReqIdle

\* read_csv(): every row of the file, in order.
read_csv == store

\* A slip that leaves out the test for an empty record list.
m_read_noguard ==
    /\ mpc = "idle"
    /\ records' = read_csv
    /\ chunk_size' = Max(Len(records') \div num_threads, 1)
    /\ mpc' = "partition"
    /\ UNCHANGED << store, num_threads, i, q, unfinished, results, lock,
                    threads, joined, response, wpc, chunk, chunk_results >>
    /\ UNCHANGED reqVars


\* records = read_csv(); an empty list is answered at once with 404,
\* otherwise the queue is created and the chunk size computed.
m_read ==
    /\ mpc = "idle"
    /\ records' = read_csv
    /\ IF records' = << >>
       THEN /\ response' = [status |-> 404, error |-> "No records found"]
            /\ mpc' = "done"
            /\ UNCHANGED chunk_size
       ELSE /\ chunk_size' = Max(Len(records') \div num_threads, 1)
            /\ mpc' = "partition"
            /\ UNCHANGED response
    /\ UNCHANGED << store, num_threads, i, q, unfinished, results, lock,
                    threads, joined, wpc, chunk, chunk_results >>
    /\ UNCHANGED reqVars

\* A slip that advances the enqueue loop by one row instead of chunk_size.
m_put_step1 ==
    /\ mpc = "partition"
    /\ i < Len(records)
    /\ q' = Append(q, Slice(records, i, chunk_size))
    /\ unfinished' = unfinished + 1
    /\ i' = i + 1
    /\ UNCHANGED << store, mpc, records, num_threads, chunk_size, results,
                    lock, threads, joined, response, wpc, chunk,
                    chunk_results >>
    /\ UNCHANGED reqVars


\* One round of: for i in range(0, len(records), chunk_size): q.put(...)
m_put ==
    /\ mpc = "partition"
    /\ i < Len(records)
    /\ q' = Append(q, Slice(records, i, chunk_size))
    /\ unfinished' = unfinished + 1
    /\ i' = i + chunk_size
    /\ UNCHANGED << store, mpc, records, num_threads, chunk_size, results,
                    lock, threads, joined, response, wpc, chunk,
                    chunk_results >>
    /\ UNCHANGED reqVars

\* A slip that leaves the enqueue loop before it has covered every row.
m_setup_early ==
    /\ mpc = "partition"
    /\ results' = << >>
    /\ lock' = 0
    /\ threads' = 0
    /\ mpc' = "start"
    /\ UNCHANGED << store, records, num_threads, chunk_size, i, q, unfinished,
                    joined, response, wpc, chunk, chunk_results >>
    /\ UNCHANGED reqVars


\* The enqueue loop is over: results = [], lock = Lock(), threads = [].
m_setup ==
    /\ mpc = "partition"
    /\ i >= Len(records)
    /\ results' = << >>
    /\ lock' = 0
    /\ threads' = 0
    /\ mpc' = "start"
    /\ UNCHANGED << store, records, num_threads, chunk_size, i, q, unfinished,
                    joined, response, wpc, chunk, chunk_results >>
    /\ UNCHANGED reqVars

\* One round of the loop that creates and starts a worker thread.
m_start ==
    /\ mpc = "start"
    /\ threads < num_threads
    /\ wpc' = [wpc EXCEPT ![threads + 1] = "check"]
    /\ threads' = threads + 1
    /\ mpc' = IF threads' = num_threads THEN "join" ELSE "start"
    /\ UNCHANGED << store, records, num_threads, chunk_size, i, q, unfinished,
                    results, lock, joined, response, chunk, chunk_results >>
    /\ UNCHANGED reqVars

\* A slip that does not wait for the thread it joins.
m_join_nowait ==
    /\ mpc = "join"
    /\ joined < num_threads
    /\ joined' = joined + 1
    /\ mpc' = IF joined' = num_threads THEN "respond" ELSE "join"
    /\ UNCHANGED << store, records, num_threads, chunk_size, i, q, unfinished,
                    results, lock, threads, response, wpc, chunk,
                    chunk_results >>
    /\ UNCHANGED reqVars


\* One round of: for t in threads: t.join().  join blocks until t has ended.
m_join ==
    /\ mpc = "join"
    /\ joined < num_threads
    /\ wpc[joined + 1] = "exit"
    /\ joined' = joined + 1
    /\ mpc' = IF joined' = num_threads THEN "respond" ELSE "join"
    /\ UNCHANGED << store, records, num_threads, chunk_size, i, q, unfinished,
                    results, lock, threads, response, wpc, chunk,
                    chunk_results >>
    /\ UNCHANGED reqVars

\* The answer: 500 when results is empty, else the results with status 200.
m_respond ==
    /\ mpc = "respond"
    /\ response' = IF results = << >>
                   THEN [status |-> 500, error |-> "No results computed"]
                   ELSE [status |-> 200, student_averages |-> results]
    /\ mpc' = "done"
    /\ UNCHANGED << store, records, num_threads, chunk_size, i, q, unfinished,
                    results, lock, threads, joined, wpc, chunk,
                    chunk_results >>
    /\ UNCHANGED reqVars

\* worker: while not q.empty()
w_check(w) ==
    /\ wpc[w] = "check"
    /\ wpc' = [wpc EXCEPT ![w] = IF q # << >> THEN "get" ELSE "exit"]
    /\ UNCHANGED << store, mpc, records, num_threads, chunk_size, i, q,
                    unfinished, results, lock, threads, joined, response,
                    chunk, chunk_results >>
    /\ UNCHANGED reqVars

\* A slip that reads the head of the queue and leaves it there.
w_get_peek(w) ==
    /\ wpc[w] = "get"
    /\ q # << >>
    /\ chunk' = [chunk EXCEPT ![w] = Head(q)]
    /\ chunk_results' = [chunk_results EXCEPT ![w] = student_average(Head(q))]
    /\ wpc' = [wpc EXCEPT ![w] = "acquire"]
    /\ UNCHANGED << store, mpc, records, num_threads, chunk_size, i, q,
                    unfinished, results, lock, threads, joined, response >>
    /\ UNCHANGED reqVars


\* worker: chunk = q.get(), which blocks while the queue is empty, and
\* chunk_results = student_average(chunk), which reads nothing shared.
w_get(w) ==
    /\ wpc[w] = "get"
    /\ q # << >>
    /\ chunk' = [chunk EXCEPT ![w] = Head(q)]
    /\ q' = Tail(q)
    /\ chunk_results' = [chunk_results EXCEPT ![w] = student_average(Head(q))]
    /\ wpc' = [wpc EXCEPT ![w] = "acquire"]
    /\ UNCHANGED << store, mpc, records, num_threads, chunk_size, i,
                    unfinished, results, lock, threads, joined, response >>
    /\ UNCHANGED reqVars

\* A slip that enters the block without waiting for the lock.
w_acquire_nolock(w) ==
    /\ wpc[w] = "acquire"
    /\ lock' = w
    /\ wpc' = [wpc EXCEPT ![w] = "extend"]
    /\ UNCHANGED << store, mpc, records, num_threads, chunk_size, i, q,
                    unfinished, results, threads, joined, response, chunk,
                    chunk_results >>
    /\ UNCHANGED reqVars


\* worker: entering "with lock", which blocks while the lock is held.
w_acquire(w) ==
    /\ wpc[w] = "acquire"
    /\ lock = 0
    /\ lock' = w
    /\ wpc' = [wpc EXCEPT ![w] = "extend"]
    /\ UNCHANGED << store, mpc, records, num_threads, chunk_size, i, q,
                    unfinished, results, threads, joined, response, chunk,
                    chunk_results >>
    /\ UNCHANGED reqVars

\* worker: results.extend(chunk_results), leaving "with lock", and
\* q.task_done(), whose counter nothing reads; then back to the loop test.
w_extend(w) ==
    /\ wpc[w] = "extend"
    /\ results' = extend(results, chunk_results[w])
    /\ lock' = 0
    /\ unfinished' = unfinished - 1
    /\ wpc' = [wpc EXCEPT ![w] = "check"]
    /\ UNCHANGED << store, mpc, records, num_threads, chunk_size, i, q,
                    threads, joined, response, chunk, chunk_results >>
    /\ UNCHANGED reqVars

Next ==
    \/ m_read
    \/ m_put
    \/ m_setup
    \/ m_start
    \/ m_join
    \/ m_respond
    \/ \E w \in Workers : w_check(w)
    \/ \E w \in Workers : w_get(w)
    \/ \E w \in Workers : w_acquire(w)
    \/ \E w \in Workers : w_extend(w)

Spec == Init /\ [][Next]_vars


\* ------------------------------------------- properties of an aggregation run
Complete == mpc = "done"

Parses(record) == BadField(record) = "none"

HasBadRecord == \E k \in 1..Len(records) : ~Parses(records[k])

AllValid == \A k \in 1..Len(records) : Parses(records[k])

DistinctIds(recs) ==
    \A j, k \in 1..Len(recs) : recs[j].Rollno = recs[k].Rollno => j = k

\* The list a response carries; none for an error response.
Returned == IF response.status = 200 THEN response.student_averages ELSE << >>

IsDerived(x) == "average" \in DOMAIN x

Count(x, list) == Cardinality({ k \in 1..Len(list) : list[k] = x })

SameMultiset(a, b) ==
    /\ Len(a) = Len(b)
    /\ \A k \in 1..Len(a) : Count(a[k], a) = Count(a[k], b)

\* C1: when a run on a record list with a row whose score is missing or not
\* numeric has completed, the response is an error and carries no derived
\* record of any row.
C1_FailureIsolation ==
    (Complete /\ HasBadRecord) =>
        /\ response.status # 200
        /\ \A k \in 1..Len(Returned) : ~IsDerived(Returned[k])

\* C2: when a run on a non-empty list of rows with numeric scores and pairwise
\* distinct identifiers has completed, the response carries exactly one
\* derived record per row and the identifiers returned are those of the input.
C2_Completeness ==
    (Complete /\ records # << >> /\ AllValid /\ DistinctIds(records)) =>
        /\ response.status = 200
        /\ Len(Returned) = Len(records)
        /\ \A k \in 1..Len(records) :
              Count(DerivedRecord(records[k]), Returned) = 1
        /\ { Returned[k].Rollno : k \in 1..Len(Returned) }
              = { records[k].Rollno : k \in 1..Len(records) }

\* C2 happens: a completed run of two workers over three valid rows whose
\* result is not in input order.
C2_Witness ==
    /\ Complete /\ AllValid /\ DistinctIds(records)
    /\ Len(records) = 3 /\ num_threads = 2
    /\ response.status = 200
    /\ Returned[1] # DerivedRecord(records[1])

\* C3: a run never stops short of its response: in every state either the
\* response has been given or some thread can take a step.
C3_Termination == Complete \/ ENABLED Next

\* C4: when a run on a non-empty list in which every row fails score parsing
\* has completed, the merged result is empty and the response is the error
\* 'No results computed'.
C4_AllFailed ==
    (Complete /\ records # << >>
        /\ \A k \in 1..Len(records) : ~Parses(records[k])) =>
        /\ results = << >>
        /\ response = [status |-> 500, error |-> "No results computed"]

\* What the run answers with a pool of one worker: one chunk, one call of
\* student_average, one extend.
SingleWorkerResults(recs) == extend(<< >>, student_average(recs))

\* C5: every completed run returns the same multiset of entries as the run
\* of the same input with one worker, whatever the pool size and schedule.
C5_Determinism ==
    (Complete /\ records # << >>) =>
        SameMultiset(results, SingleWorkerResults(records))


\* ------------------------------------------------------ the record store
\* Longest file the store requests are explored on.
MaxStore == 3

\* The Rollno values the store requests use (a route's <rollno> is not empty).
Ids == {"1", "2", "3"}

\* valid_fields of update_record, which are also the fieldnames of write_csv.
valid_fields == Fields

\* record.update(g) on a row f; also how a body is put together from parts.
Merge(f, g) ==
    [k \in DOMAIN f \cup DOMAIN g |-> IF k \in DOMAIN g THEN g[k] ELSE f[k]]

\* The form data of a Create: a full row, or a row without its english field.
CreateData ==
    { Row(r, "a", "75", "80", "70") : r \in Ids }
    \cup { [Rollno |-> r, name |-> "a", maths |-> "80", science |-> "70"] :
              r \in Ids }

\* The JSON bodies of an Update: empty, a new Rollno, a new english score,
\* both, and the key "rollno", which the update form sends and which is not
\* among valid_fields, alone or beside a new english score.
UpdateData ==
    { << >>, [english |-> "75"], [rollno |-> "9"],
      [english |-> "75", rollno |-> "9"], [Rollno |-> "2", english |-> "75"] }
    \cup { [Rollno |-> r] : r \in Ids }

\* What DictWriter writes for a row, as read back by DictReader: the five
\* fieldnames, a missing one as "".  (No row reaching write_csv has other keys.)
StoredRow(row) ==
    [f \in Fields |-> IF f \in DOMAIN row THEN row[f] ELSE ""]

\* A slip that leaves the last row unwritten.
write_csv_short(rows) ==
    [k \in 1..(Len(rows) - 1) |-> StoredRow(rows[k])]

\* The file after write_csv(rows): the old content is replaced by the rows.
write_csv(rows) == [k \in 1..Len(rows) |-> StoredRow(rows[k])]

\* A slip that writes all() for any().
RollnoExists_all(recs, rollno) == \A k \in 1..Len(recs) : recs[k].Rollno = rollno

\* any(record["Rollno"] == rollno for record in records)
RollnoExists(recs, rollno) == \E k \in 1..Len(recs) : recs[k].Rollno = rollno

\* The keys of the body that are among valid_fields, with their values.
filtered_data(data) ==
    [k \in DOMAIN data \cap valid_fields |-> data[k]]

\* A slip that drops the break: every row with the Rollno is updated.
update_rows_nobreak(recs, rollno, fd) ==
    [k \in 1..Len(recs) |->
        IF recs[k].Rollno = rollno THEN Merge(recs[k], fd) ELSE recs[k]]

\* The update loop: the first row with the Rollno gets record.update(fd).
update_rows(recs, rollno, fd) ==
    [k \in 1..Len(recs) |->
        IF /\ recs[k].Rollno = rollno
           /\ \A j \in 1..(k - 1) : recs[j].Rollno # rollno
        THEN Merge(recs[k], fd) ELSE recs[k]]

\* A slip that removes only the first row with the Rollno.
RECURSIVE new_records_first(_, _)
new_records_first(recs, rollno) ==
    IF recs = << >> THEN << >>
    ELSE IF Head(recs).Rollno = rollno THEN Tail(recs)
    ELSE << Head(recs) >> \o new_records_first(Tail(recs), rollno)

\* [record for record in records if record["Rollno"] != rollno]
RECURSIVE new_records(_, _)
new_records(recs, rollno) ==
    IF recs = << >> THEN << >>
    ELSE IF Head(recs).Rollno # rollno
         THEN << Head(recs) >> \o new_records(Tail(recs), rollno)
         ELSE new_records(Tail(recs), rollno)

\* The status delete_record answers on a file holding recs.
delete_status(recs, rollno) ==
    IF new_records(recs, rollno) = recs THEN 404 ELSE 200

\* What read_record answers on a file holding recs: the first row with the
\* Rollno, or an error body (sent with status 200).
read_answer(recs, rollno) ==
    IF RollnoExists(recs, rollno)
    THEN [record |-> recs[CHOOSE k \in 1..Len(recs) :
                            /\ recs[k].Rollno = rollno
                            /\ \A j \in 1..(k - 1) : recs[j].Rollno # rollno]]
    ELSE [error |-> "not found"]

\* A slip that writes the file before answering that the Rollno exists.
create_record_dupwrite(data) ==
    /\ Len(store) < MaxStore \/ RollnoExists(store, data.Rollno)
    /\ LET recs == read_csv IN
       IF RollnoExists(recs, data.Rollno)
       THEN /\ last' = [op |-> "create", data |-> data, status |-> 400]
            /\ store' = write_csv(Append(recs, data))
       ELSE /\ store' = write_csv(Append(recs, data))
            /\ last' = [op |-> "create", data |-> data, status |-> 201]
    /\ UNCHANGED << aggVars, rpc, rdata, rrecords, rresp >>


\* POST /insert, handled alone.
create_record(data) ==
    /\ Len(store) < MaxStore \/ RollnoExists(store, data.Rollno)
    /\ LET recs == read_csv IN
       IF RollnoExists(recs, data.Rollno)
       THEN /\ last' = [op |-> "create", data |-> data, status |-> 400]
            /\ UNCHANGED store
       ELSE /\ store' = write_csv(Append(recs, data))
            /\ last' = [op |-> "create", data |-> data, status |-> 201]
    /\ UNCHANGED << aggVars, rpc, rdata, rrecords, rresp >>

\* PUT /update/<rollno>, handled alone.
update_record(rollno, data) ==
    /\ LET recs == read_csv IN
       IF ~RollnoExists(recs, rollno)
       THEN /\ last' = [op |-> "update", rollno |-> rollno, data |-> data,
                         status |-> 404]
            /\ UNCHANGED store
       ELSE /\ store' = write_csv(update_rows(recs, rollno,
                                              filtered_data(data)))
            /\ last' = [op |-> "update", rollno |-> rollno, data |-> data,
                         status |-> 200]
    /\ UNCHANGED << aggVars, rpc, rdata, rrecords, rresp >>

\* DELETE /remove/<rollno>, handled alone.
delete_record(rollno) ==
    /\ LET recs == read_csv IN
       IF delete_status(recs, rollno) = 404
       THEN /\ last' = [op |-> "delete", rollno |-> rollno, status |-> 404]
            /\ UNCHANGED store
       ELSE /\ store' = write_csv(new_records(recs, rollno))
            /\ last' = [op |-> "delete", rollno |-> rollno, status |-> 200]
    /\ UNCHANGED << aggVars, rpc, rdata, rrecords, rresp >>

\* GET /read?rollno=<rollno>, handled alone.
read_record(rollno) ==
    /\ last' = [op |-> "read", rollno |-> rollno,
                 answer |-> read_answer(read_csv, rollno)]
    /\ UNCHANGED << store, aggVars, rpc, rdata, rrecords, rresp >>

\* Store requests handled one after another, from an empty file.
StoreInit ==
    /\ store = << >>
    /\ num_threads = 1
    /\ AggIdle
    /\ ReqIdle

StoreNext ==
    \/ \E data \in CreateData : create_record(data)
    \/ \E rollno \in Ids, data \in UpdateData : update_record(rollno, data)
    \/ \E rollno \in Ids : delete_record(rollno)
    \/ \E rollno \in Ids : read_record(rollno)

StoreSpec == StoreInit /\ [][StoreNext]_vars


\* Two POST /insert requests handled at the same time by two threads of the
\* server, each running create_record step by step.  write_csv is two steps:
\* open(csv_file, mode='w') empties the file, leaving the with block writes
\* the rows.
ConcData == { Row(r, "a", "75", "80", "70") : r \in Ids }

ConcInit ==
    /\ store \in { << >>, << Row("3", "c", "75", "80", "70") >> }
    /\ num_threads = 1
    /\ AggIdle
    /\ last = NoRequest
    /\ rpc = [p \in Requests |-> "read"]
    /\ rdata \in [Requests -> ConcData]
    /\ rrecords = [p \in Requests |-> << >>]
    /\ rresp = [p \in Requests |-> 0]

\* records = read_csv()
c_read(p) ==
    /\ rpc[p] = "read"
    /\ rrecords' = [rrecords EXCEPT ![p] = read_csv]
    /\ rpc' = [rpc EXCEPT ![p] = "check"]
    /\ UNCHANGED << store, aggVars, last, rdata, rresp >>

\* The duplicate test: 400, or records.append(data).
c_check(p) ==
    /\ rpc[p] = "check"
    /\ IF RollnoExists(rrecords[p], rdata[p].Rollno)
       THEN /\ rresp' = [rresp EXCEPT ![p] = 400]
            /\ rpc' = [rpc EXCEPT ![p] = "done"]
            /\ UNCHANGED rrecords
       ELSE /\ rrecords' = [rrecords EXCEPT ![p] = Append(rrecords[p], rdata[p])]
            /\ rpc' = [rpc EXCEPT ![p] = "open"]
            /\ UNCHANGED rresp
    /\ UNCHANGED << store, aggVars, last, rdata >>

\* write_csv: the file is opened for writing, which empties it.
c_open(p) ==
    /\ rpc[p] = "open"
    /\ store' = << >>
    /\ rpc' = [rpc EXCEPT ![p] = "write"]
    /\ UNCHANGED << aggVars, last, rdata, rrecords, rresp >>

\* write_csv: the rows are written and the file closed; then the answer 201.
c_write(p) ==
    /\ rpc[p] = "write"
    /\ store' = write_csv(rrecords[p])
    /\ rresp' = [rresp EXCEPT ![p] = 201]
    /\ rpc' = [rpc EXCEPT ![p] = "done"]
    /\ UNCHANGED << aggVars, last, rdata, rrecords >>

ConcNext ==
    \/ \E p \in Requests : c_read(p)
    \/ \E p \in Requests : c_check(p)
    \/ \E p \in Requests : c_open(p)
    \/ \E p \in Requests : c_write(p)

ConcSpec == ConcInit /\ [][ConcNext]_vars

\* ------------------------------------------------ properties of the store
HasId(recs, rollno) == rollno \in { recs[k].Rollno : k \in 1..Len(recs) }

\* C6: no two rows of the file have the same Rollno, whatever Create, Update
\* and Delete requests have been handled one after another.
C6_UniqueIds == DistinctIds(store)

\* C7: a Create whose Rollno is in the file is answered 400 and leaves the
\* file as it was; any other Create is answered 201 and leaves the file with
\* the old rows in their order followed by the new row.
C7_Create ==
    [][ last'.op = "create" =>
          LET data == last'.data IN
          IF HasId(store, data.Rollno)
          THEN last'.status = 400 /\ store' = store
          ELSE /\ last'.status = 201
               /\ Len(store') = Len(store) + 1
               /\ SubSeq(store', 1, Len(store)) = store
               /\ \A f \in DOMAIN data : store'[Len(store')][f] = data[f]
               /\ DOMAIN data = Fields => store'[Len(store')] = data
      ]_vars

\* C7 happens: a Create has been answered 201 on a file that held two rows.
C7_Witness ==
    /\ last.op = "create" /\ last.status = 201
    /\ Len(store) = 3
    /\ store[3].Rollno = last.data.Rollno

\* C8: an Update of a Rollno not in the file is answered 404 and changes
\* nothing; any other Update is answered 200 and changes, in one row with that
\* Rollno, the fields named in the body that are valid fields, and nothing
\* else; a body naming no valid field leaves the file as it was.
C8_Update ==
    [][ last'.op = "update" =>
          LET rollno == last'.rollno
              data == last'.data
          IN
          IF ~HasId(store, rollno)
          THEN last'.status = 404 /\ store' = store
          ELSE /\ last'.status = 200
               /\ Len(store') = Len(store)
               /\ \E k \in 1..Len(store) :
                     /\ store[k].Rollno = rollno
                     /\ \A j \in 1..Len(store) : j # k => store'[j] = store[j]
                     /\ DOMAIN store'[k] = Fields
                     /\ \A f \in Fields :
                           store'[k][f] = IF f \in DOMAIN data THEN data[f]
                                          ELSE store[k][f]
               /\ DOMAIN data \cap Fields = {} => store' = store
      ]_vars

\* C8 happens: an Update naming a valid field and the key "rollno" has been
\* answered 200 on a file of three rows.
C8_Witness ==
    /\ last.op = "update" /\ last.status = 200
    /\ DOMAIN last.data = {"english", "rollno"}
    /\ Len(store) = 3

\* C9: a Delete of a Rollno not in the file is answered 404, changes nothing
\* and would be answered 404 again; any other Delete is answered 200, after
\* which no row has the Rollno, the other rows are there in their order, and a
\* Delete or Read of the Rollno finds nothing.
C9_Delete ==
    [][ last'.op = "delete" =>
          LET rollno == last'.rollno
              Kept(k) == store[k].Rollno # rollno
          IN
          IF ~HasId(store, rollno)
          THEN /\ last'.status = 404
               /\ store' = store
               /\ delete_status(store', rollno) = 404
          ELSE /\ last'.status = 200
               /\ ~HasId(store', rollno)
               /\ Len(store') = Cardinality({ k \in 1..Len(store) : Kept(k) })
               /\ \A k \in 1..Len(store) :
                     Kept(k) =>
                       store'[Cardinality({ m \in 1..k : Kept(m) })] = store[k]
               /\ delete_status(store', rollno) = 404
               /\ "error" \in DOMAIN read_answer(store', rollno)
      ]_vars

\* C9 happens: a Delete has been answered 200 and left two rows.
C9_Witness ==
    /\ last.op = "delete" /\ last.status = 200
    /\ Len(store) = 2
    /\ store[1].Rollno # store[2].Rollno

\* C10: when both of two concurrent Creates have answered, the file is what
\* the request that wrote last put there: the rows it had read followed by
\* its own row, whatever the other request wrote in between.
C10_LastWriterWins ==
    ((\A p \in Requests : rpc[p] = "done")
        /\ (\E p \in Requests : rresp[p] = 201)) =>
        \E p \in Requests :
            /\ rresp[p] = 201
            /\ Len(store) = Len(rrecords[p])
            /\ store[Len(store)] = rdata[p]
            /\ \A k \in 1..Len(store) : store[k] = rrecords[p][k]

\* C10 happens: two concurrent Creates with different new Rollno values have
\* both answered 201 and the file holds the row of only one of them.
C10_LostUpdate ==
    /\ \A p \in Requests : rresp[p] = 201
    /\ rdata[1].Rollno # rdata[2].Rollno
    /\ \E p \in Requests : ~HasId(store, rdata[p].Rollno)

\* The second case of C10: two concurrent Creates with the same new Rollno
\* have both answered 201.
C10_SameIdBothSucceed ==
    /\ \A p \in Requests : rresp[p] = 201
    /\ rdata[1].Rollno = rdata[2].Rollno


\* --------------------------------------- further properties of a run
\* C11 as claimed: a completed run on an empty file answers without an error
\* and with an empty result.
C11_EmptyInput ==
    (Complete /\ store = << >>) =>
        /\ "error" \notin DOMAIN response
        /\ Returned = << >>

\* C11 as the code has it: a run on an empty file is answered at once with
\* 404 'No records found'; no chunk is enqueued, no worker is started and
\* nothing is computed.
C11_NoRecordsFound ==
    (Complete /\ store = << >>) =>
        /\ response = [status |-> 404, error |-> "No records found"]
        /\ q = << >> /\ unfinished = 0
        /\ threads = 0
        /\ \A w \in Workers : wpc[w] = "unborn"
        /\ results = << >>

\* C11 happens: a run on an empty file has been answered.
C11_Witness == Complete /\ store = << >> /\ response.status = 404

\* ------------------------------------------------ the partition alone
\* Longest record list and largest pool size the partition is explored on.
MaxPartRecords == 7
MaxPartThreads == 3

\* The record lists of at most n rows with pairwise distinct Rollno values.
PartInputs(n) ==
    UNION { { [j \in 1..k |-> IF j \in B THEN BadRow(j) ELSE GoodRow(j)] :
                B \in SUBSET (1..k) } : k \in 0..n }

\* The part of average_scores up to the start of the first thread.
PartInit ==
    /\ store \in PartInputs(MaxPartRecords)
    /\ num_threads \in 1..MaxPartThreads
    /\ AggIdle
    /\ ReqIdle

PartNext == m_read \/ m_put \/ m_setup

PartSpec == PartInit /\ [][PartNext]_vars

RECURSIVE Concat(_)
Concat(lists) ==
    IF lists = << >> THEN << >> ELSE Head(lists) \o Concat(Tail(lists))

\* C12: when the enqueue loop is over, for N rows and W workers and
\* c = max(N div W, 1), the queue holds ceil(N / c) chunks, each a non-empty
\* contiguous slice of the rows, each but the last of c rows; every row is in
\* exactly one chunk and the chunks in queue order make up the row list.
C12_Partitioning ==
    (mpc = "start" /\ threads = 0) =>
        LET N == Len(records)
            W == num_threads
            c == IF N \div W >= 1 THEN N \div W ELSE 1
            n == Len(q)
        IN  /\ n = (N + c - 1) \div c
            /\ \A k \in 1..n :
                 /\ Len(q[k]) >= 1
                 /\ k < n => Len(q[k]) = c
                 /\ \A j \in 1..Len(q[k]) : q[k][j] = records[(k - 1) * c + j]
            /\ \A m \in 1..N :
                 Cardinality({ kj \in (1..n) \X (1..c) :
                                 /\ kj[2] <= Len(q[kj[1]])
                                 /\ q[kj[1]][kj[2]] = records[m] }) = 1
            /\ Concat(q) = records

\* C12 happens: five rows for two workers are enqueued as chunks of 2, 2, 1.
C12_Witness ==
    /\ mpc = "start" /\ threads = 0
    /\ Len(records) = 5 /\ num_threads = 2
    /\ Len(q) = 3 /\ Len(q[3]) = 1

\* ------------------------------------------------- the average alone
\* One /average request on a file of one row with numeric scores, handled by
\* one worker.
AvgInit ==
    /\ store \in { << Row("7", "g", e, m, s) >> : e, m, s \in NumericStrings }
    /\ num_threads = 1
    /\ AggIdle
    /\ ReqIdle

AvgSpec == AvgInit /\ [][Next]_vars

\* C13: the run on one row with integer scores a, b, c returns one record
\* with the row's Rollno and name and with the hundredth nearest to
\* (a + b + c) / 3 as its average: 80.00 for (90, 80, 70) and 99.67 for
\* (100, 100, 99).
C13_Average ==
    Complete =>
        LET row == records[1]
            sum == float(row.english) + float(row.maths) + float(row.science)
        IN  /\ response.status = 200
            /\ Len(Returned) = 1
            /\ Returned[1].Rollno = row.Rollno
            /\ Returned[1].name = row.name
            /\ 3 * Returned[1].average - 100 * sum \in -1..1
            /\ sum = 240 => Returned[1].average = 8000
            /\ sum = 299 => Returned[1].average = 9967

\* C13 happens: the row (100, 100, 99) has been averaged to 99.67.
C13_Witness ==
    /\ Complete
    /\ store[1].english = "100" /\ store[1].maths = "100"
    /\ store[1].science = "99"
    /\ Returned[1].average = 9967

\* C14: at every moment of a run every element of results is the derived
\* record of an input row that parses, no Rollno occurs twice in results when
\* the input has none twice, and a completed run that reports no failure
\* holds the derived record of every row that parses.
C14_ResultContent ==
    /\ \A k \in 1..Len(results) :
         \E j \in 1..Len(records) :
            Parses(records[j]) /\ results[k] = DerivedRecord(records[j])
    /\ DistinctIds(records) =>
         \A j, k \in 1..Len(results) :
            (IsDerived(results[j]) /\ IsDerived(results[k])
                /\ results[j].Rollno = results[k].Rollno) => j = k
    /\ (Complete /\ response.status = 200) =>
         \A j \in 1..Len(records) :
            Parses(records[j]) => Count(DerivedRecord(records[j]), Returned) >= 1

\* C15: a response is given only when every worker that was started has
\* ended; while a worker is at the loop test, pulling, waiting for the lock or
\* merging, the request thread has neither left the join loop nor answered.
C15_JoinBarrier ==
    (mpc \in {"respond", "done"}) =>
        /\ threads \in {0, num_threads}
        /\ \A w \in Workers :
             wpc[w] \in (IF w <= threads THEN {"exit"} ELSE {"unborn"})

\* C15 happens: a run of two workers has answered 200.
C15_Witness ==
    /\ Complete /\ response.status = 200
    /\ num_threads = 2 /\ threads = 2
    /\ wpc[1] = "exit" /\ wpc[2] = "exit"

\* The chunks of recs for chunk size c, in the order they are enqueued.
EnqueuedChunks(recs, c) ==
    [k \in 1..((Len(recs) + c - 1) \div c) |->
        [j \in 1..(IF k * c > Len(recs) THEN Len(recs) - (k - 1) * c ELSE c) |->
            recs[(k - 1) * c + j]]]

\* The workers that have pulled a chunk and not yet merged it.
InFlight == { w \in Workers : wpc[w] \in {"acquire", "extend"} }

\* res is made of what the chunks of all with an index in S yield, each once,
\* in some order.
RECURSIVE MergedOnce(_, _, _)
MergedOnce(res, S, all) ==
    IF S = {} THEN res = << >>
    ELSE \E k \in S :
            LET out == student_average(all[k]) IN
            /\ Len(out) <= Len(res)
            /\ SubSeq(res, 1, Len(out)) = out
            /\ MergedOnce(SubSeq(res, Len(out) + 1, Len(res)), S \ {k}, all)

\* C16: once the chunks are enqueued, the queue is the not yet pulled rest of
\* them in order, every pulled chunk is either with exactly one worker or
\* merged into results exactly once, and no chunk is both; when the run has
\* answered, the queue is empty and every chunk has been pulled and merged.
C16_ChunkDelivery ==
    (mpc \in {"start", "join", "respond", "done"} /\ records # << >>) =>
        LET all == EnqueuedChunks(records, chunk_size)
            n == Len(all)
            pulled == n - Len(q)
        IN  /\ q = SubSeq(all, pulled + 1, n)
            /\ Cardinality(InFlight) + (n - unfinished) = pulled
            /\ \E f \in [InFlight -> 1..pulled] :
                 /\ \A v, w \in InFlight : f[v] = f[w] => v = w
                 /\ \A w \in InFlight : chunk[w] = all[f[w]]
                 /\ MergedOnce(results,
                               (1..pulled) \ { f[w] : w \in InFlight }, all)
            /\ Complete => (q = << >> /\ unfinished = 0 /\ pulled = n)

\* C16 happens: two workers hold different chunks while a third chunk waits.
C16_Witness ==
    /\ InFlight = {1, 2}
    /\ chunk[1] # chunk[2]
    /\ Len(q) = 1

\* ---------------------------------------------------------------------------
\* Runs on files whose every row parses.

MaxValidRecords == 4

\* Files of up to n rows that all parse; a row may repeat the identifier "1".
ValidInputs(n) ==
    UNION { { [j \in 1..k |-> IF j \in D THEN Row("1", "d", "75", "80", "99")
                                        ELSE GoodRow(j)] :
                D \in SUBSET (1..k) } : k \in 0..n }

ValidInit ==
    /\ store \in ValidInputs(MaxValidRecords)
    /\ num_threads \in 1..MaxThreads
    /\ AggIdle
    /\ ReqIdle

ValidSpec == ValidInit /\ [][Next]_vars

\* The derived records of one chunk, in the order of its source rows.
BlockOf(ch) == [j \in 1..Len(ch) |-> DerivedRecord(ch[j])]

\* res is a sequence of whole blocks of chunks of all with distinct indices
\* in S, in any order of the blocks.
RECURSIVE IsBlocks(_, _, _)
IsBlocks(res, S, all) ==
    \/ res = << >>
    \/ \E k \in S :
         LET b == BlockOf(all[k]) IN
         /\ Len(b) <= Len(res)
         /\ SubSeq(res, 1, Len(b)) = b
         /\ IsBlocks(SubSeq(res, Len(b) + 1, Len(res)), S \ {k}, all)

\* C17: for a file whose rows all parse, the merged result is at every moment
\* a sequence of whole chunk blocks, each block holding the derived records
\* of one chunk contiguously and in the order of their source rows, no chunk
\* twice; the answer carries the block of every chunk.  Nothing is said about
\* the order of the blocks.
C17_PerChunkOrder ==
    (AllValid /\ mpc \in {"start", "join", "respond", "done"}
              /\ records # << >>) =>
        LET all == EnqueuedChunks(records, chunk_size) IN
        /\ IsBlocks(results, 1..Len(all), all)
        /\ Complete =>
             /\ response.status = 200
             /\ Len(Returned) = Len(records)
             /\ IsBlocks(Returned, 1..Len(all), all)

\* C17 happens: the block of the second chunk is merged before the block of
\* the first, each in source order.
C17_Witness ==
    /\ Complete
    /\ Len(records) = 4
    /\ num_threads = 2
    /\ DistinctIds(records)
    /\ Returned = << DerivedRecord(records[3]), DerivedRecord(records[4]),
                     DerivedRecord(records[1]), DerivedRecord(records[2]) >>

\* ---------------------------------------------------------------------------
\* The lock around the result list.

\* The workers inside the "with lock" block.
InCritical == { w \in Workers : wpc[w] = "extend" }

\* At most one worker is inside the block, and the lock is held exactly by
\* the worker inside it: never by one that is testing or pulling from the
\* queue, computing a chunk, waiting for the lock, or has returned.
MutexInv ==
    /\ Cardinality(InCritical) <= 1
    /\ lock \in {0} \cup Workers
    /\ \A w \in Workers : (lock = w) <=> (w \in InCritical)

\* A step that changes the result list is the append of the worker that
\* holds the lock, and gives the lock back; a step that takes the lock
\* leaves the list, the queue and every worker's chunk alone.
LockedAppend ==
    /\ (results' # results) =>
          /\ lock \in InCritical
          /\ results' = results \o chunk_results[lock]
          /\ lock' = 0
    /\ (lock = 0 /\ lock' # 0) =>
          /\ results' = results
          /\ q' = q
          /\ chunk_results' = chunk_results

\* C18: in every reachable state at most one worker is inside the critical
\* section, the result list is changed only by the worker that holds the
\* lock, and the lock is held only for the append.
C18_MutualExclusion == [](MutexInv) /\ [][LockedAppend]_vars

\* C18 happens: one worker is inside the block with the lock while the other
\* waits for it with its chunk already computed.
C18_Witness ==
    /\ lock = 1
    /\ wpc[1] = "extend"
    /\ wpc[2] = "acquire"
    /\ chunk_results[2] # << >>

\* ---------------------------------------------------------------------------
\* The phases of a run.

\* The phase of a run: 0 idle, 1 partitioned (chunks being or already
\* enqueued, no worker started), 2 running (workers started, chunks waiting),
\* 3 draining (workers started, queue empty), 4 complete.
PhaseOf(m, t, queue) ==
    CASE m = "idle" -> 0
      [] m = "partition" -> 1
      [] m \in {"start", "join"} ->
            IF t = 0 THEN 1 ELSE IF queue # << >> THEN 2 ELSE 3
      [] OTHER -> 4

Phase == PhaseOf(mpc, threads, q)

AnyStarted == \E w \in Workers : wpc[w] # "unborn"

\* No worker runs before the enqueue loop is over.
FilledBeforeStart ==
    AnyStarted => (threads > 0 /\ mpc # "partition" /\ i >= Len(records))

\* A step that lengthens the queue is taken with no worker started; the step
\* that starts the first worker finds every chunk enqueued; once a worker has
\* started the queue never grows; the phase never goes back.
OneShotStep ==
    /\ (Len(q') > Len(q)) => (threads = 0 /\ ~AnyStarted /\ mpc = "partition")
    /\ (threads = 0 /\ threads' > 0) =>
          /\ q = EnqueuedChunks(records, chunk_size)
          /\ unfinished = Len(q)
    /\ AnyStarted => Len(q') <= Len(q)
    /\ PhaseOf(mpc', threads', q') >= Phase

\* C19: all chunks are enqueued before the first worker starts, none is
\* enqueued once a worker has started, so the queue never grows during a run,
\* and the phases of the run only advance.
C19_OneShotQueue == [](FilledBeforeStart) /\ [][OneShotStep]_vars

\* C19 happens: the run is draining, after three chunks were enqueued and
\* two workers pulled them all.
C19_Witness ==
    /\ Phase = 3
    /\ Len(EnqueuedChunks(records, chunk_size)) = 3
    /\ threads = 2
    /\ wpc[1] = "acquire"
    /\ wpc[2] = "acquire"

\* ---------------------------------------------------------------------------
\* The service: store requests handled one after another from an empty file,
\* then one /average run on the file they left.

ServiceNext ==
    \/ mpc = "idle" /\ StoreNext
    \/ Next

ServiceSpec == StoreInit /\ [][ServiceNext]_vars

\* A step of the /average run: the store requests leave its variables alone.
AggregationStep == aggVars' # aggVars

\* A step of a store request that answered as given.
Answered(op, status) ==
    /\ aggVars' = aggVars
    /\ last'.op = op
    /\ last'.status = status

ReadStep == aggVars' = aggVars /\ last'.op = "read"

\* C20: a Create rejected as duplicate, an Update or a Delete answered
\* not-found, every Read and every step of an aggregation run leave the
\* stored rows exactly as they were.
C20_Frame ==
    [][ ( \/ Answered("create", 400)
          \/ Answered("update", 404)
          \/ Answered("delete", 404)
          \/ ReadStep
          \/ AggregationStep ) => store' = store ]_vars

\* C20 happens: after a Create was rejected as duplicate, a run has answered
\* with the averages of the rows that are still stored.
C20_Witness ==
    /\ Complete
    /\ response.status = 200
    /\ last.op = "create"
    /\ last.status = 400
    /\ Len(store) = 2
    /\ records = store
====
